---------------------------- MODULE Spec2Model ----------------------------
(***************************************************************************)
(* A model of src/src/game.rs: the FEN decoder Board::new_from_fen, its    *)
(* helpers char_to_piece_type, piece_type_to_char and square_from_string,  *)
(* and the text renderer Board::render.                                    *)
(*                                                                         *)
(* A string is the sequence of its characters, a character a one-letter    *)
(* TLA+ string.  A Rust Result is a record tagged "Ok" or "Err"; a panic   *)
(* (an out-of-range index, an unwrap of Err, an arithmetic overflow in a   *)
(* build with overflow checks) is the outcome tagged "panic".              *)
(***************************************************************************)
EXTENDS Integers, Sequences, FiniteSets, TLC

(***************************************************************************)
(* Bounds of the model.                                                    *)
(***************************************************************************)
\* longest field that is enumerated exhaustively over a small alphabet
MaxFieldLen == 2
\* most pieces in a Board written as a struct literal
MaxLiteralPieces == 2

(***************************************************************************)
(* Characters.                                                             *)
(***************************************************************************)
Chars(s) == [i \in 1..Len(s) |-> SubSeq(s, i, i)]

\* the printable ASCII characters but the grave accent (code 96), in code
\* order: codes 32 (space) to 95 (_), and codes 97 (a) to 126 (~)
PrintableLow ==
    <<" ", "!", "\"", "#", "$", "%", "&", "'", "(", ")", "*", "+", ",", "-",
      ".", "/", "0", "1", "2", "3", "4", "5", "6", "7", "8", "9", ":", ";",
      "<", "=", ">", "?", "@", "A", "B", "C", "D", "E", "F", "G", "H", "I",
      "J", "K", "L", "M", "N", "O", "P", "Q", "R", "S", "T", "U", "V", "W",
      "X", "Y", "Z", "[", "\\", "]", "^", "_">>

PrintableHigh ==
    <<"a", "b", "c", "d", "e", "f", "g", "h", "i", "j", "k", "l", "m", "n",
      "o", "p", "q", "r", "s", "t", "u", "v", "w", "x", "y", "z", "{", "|",
      "}", "~">>

AsciiChars ==
    {PrintableLow[i] : i \in 1..Len(PrintableLow)}
        \cup {PrintableHigh[i] : i \in 1..Len(PrintableHigh)}

OrdTable ==
    [c \in AsciiChars |->
        IF \E i \in 1..Len(PrintableLow) : PrintableLow[i] = c
        THEN 31 + CHOOSE i \in 1..Len(PrintableLow) : PrintableLow[i] = c
        ELSE 96 + CHOOSE i \in 1..Len(PrintableHigh) : PrintableHigh[i] = c]

\* c as u32 / the byte of an ASCII character
Ord(c) == OrdTable[c]

Chr(n) == IF n <= 95 THEN PrintableLow[n - 31] ELSE PrintableHigh[n - 96]

\* char::is_digit(10)
is_digit(c) == Ord(c) >= Ord("0") /\ Ord(c) <= Ord("9")

\* char::to_digit(10): None for a character that is no decimal digit
to_digit(c) ==
    IF is_digit(c) THEN [tag |-> "Some", val |-> Ord(c) - Ord("0")]
    ELSE [tag |-> "None"]

is_ascii_lowercase(c) == Ord(c) >= Ord("a") /\ Ord(c) <= Ord("z")

is_ascii_uppercase(c) == Ord(c) >= Ord("A") /\ Ord(c) <= Ord("Z")

to_ascii_lowercase(c) ==
    IF is_ascii_uppercase(c) THEN Chr(Ord(c) + (Ord("a") - Ord("A"))) ELSE c

\* char::to_uppercase().to_string(), on ASCII
to_uppercase(c) ==
    IF is_ascii_lowercase(c) THEN Chr(Ord(c) - (Ord("a") - Ord("A"))) ELSE c

(***************************************************************************)
(* Results.                                                                *)
(***************************************************************************)
Ok(v) == [tag |-> "Ok", val |-> v]
Err(m) == [tag |-> "Err", msg |-> m]
Panic == [tag |-> "panic"]
Some(v) == [tag |-> "Some", val |-> v]
None == [tag |-> "None"]
NoResult == [tag |-> "pending"]

(***************************************************************************)
(* The data model.                                                         *)
(***************************************************************************)
PieceType == {"Pawn", "Rook", "Knight", "Bishop", "Queen", "King"}

PieceColor == {"Black", "White"}

Piece(px, py, t, c) == [x |-> px, y |-> py, ptype |-> t, color |-> c]

(***************************************************************************)
(* The piece-letter mappings.                                              *)
(***************************************************************************)
char_to_piece_type_swapped(c) ==
    CASE c = "p" -> Ok("Pawn")
      [] c = "r" -> Ok("Rook")
      [] c = "n" -> Ok("Bishop")
      [] c = "b" -> Ok("Knight")
      [] c = "q" -> Ok("Queen")
      [] c = "k" -> Ok("King")
      [] OTHER -> Err("Invalid piece char")

char_to_piece_type(c) ==
    CASE c = "p" -> Ok("Pawn")
      [] c = "r" -> Ok("Rook")
      [] c = "n" -> Ok("Knight")
      [] c = "b" -> Ok("Bishop")
      [] c = "q" -> Ok("Queen")
      [] c = "k" -> Ok("King")
      [] OTHER -> Err("Invalid piece char")

piece_type_to_char_knight_k(c) ==
    CASE c = "Pawn" -> "p"
      [] c = "Rook" -> "r"
      [] c = "Knight" -> "k"
      [] c = "Bishop" -> "b"
      [] c = "Queen" -> "q"
      [] c = "King" -> "k"

piece_type_to_char(c) ==
    CASE c = "Pawn" -> "p"
      [] c = "Rook" -> "r"
      [] c = "Knight" -> "n"
      [] c = "Bishop" -> "b"
      [] c = "Queen" -> "q"
      [] c = "King" -> "k"

(***************************************************************************)
(* square_from_string.  The two subtractions are on u32: below zero they   *)
(* panic in a build with overflow checks and wrap in one without, and the  *)
(* cast to u8 keeps the low eight bits.  The tuple's first element is      *)
(* computed before the digit is looked at.                                 *)
(***************************************************************************)
U8Modulus == 256

square_from_string(s, overflow_checks) ==
    IF Len(s) # 2 THEN Err("Invalid string to turn into square.")
    ELSE IF Ord(s[1]) < Ord("a") /\ overflow_checks THEN Panic
    ELSE LET file == (Ord(s[1]) - Ord("a")) % U8Modulus
             digit == to_digit(s[2])
         IN  IF digit.tag = "None" THEN Err("Invalid string to turn into square.")
             ELSE IF digit.val < 1 /\ overflow_checks THEN Panic
             ELSE Ok(<<file, (digit.val - 1) % U8Modulus>>)

(***************************************************************************)
(* Strings: str::split, str::contains, and the standard library's          *)
(* str::parse for the unsigned integer types.                              *)
(***************************************************************************)
RECURSIVE split_from(_, _, _)
\* the fields of s from its first character on, cur being the field begun
split_from(s, sep, cur) ==
    IF s = <<>> THEN <<cur>>
    ELSE IF Head(s) = sep THEN <<cur>> \o split_from(Tail(s), sep, <<>>)
    ELSE split_from(Tail(s), sep, Append(cur, Head(s)))

\* fen.split(" ").collect(): always at least one field
split(s, sep) == split_from(s, sep, <<>>)

\* str::contains, for a one-character pattern
contains(s, c) == \E k \in 1..Len(s) : s[k] = c

\* An unsigned value is kept as two 16-bit limbs <<hi, lo>>, hi * 2^16 + lo,
\* so that the whole range of u32 is held exactly.
LimbBase == 65536

U8Max == <<0, 255>>

U32Max == <<LimbBase - 1, LimbBase - 1>>

\* checked_mul(10) followed by checked_add(d): None on overflow of the type
checked_mul10_add(v, d, max) ==
    LET lo == v[2] * 10 + d
        hi == v[1] * 10 + (lo \div LimbBase)
        r  == <<hi, lo % LimbBase>>
    IN  IF hi > max[1] \/ (hi = max[1] /\ r[2] > max[2]) THEN None ELSE Some(r)

RECURSIVE parse_digits(_, _, _)
parse_digits(s, acc, max) ==
    IF s = <<>> THEN Ok(acc)
    ELSE LET d == to_digit(Head(s))
         IN  IF d.tag = "None" THEN Err("InvalidDigit")
             ELSE LET n == checked_mul10_add(acc, d.val, max)
                  IN  IF n.tag = "None" THEN Err("PosOverflow")
                      ELSE parse_digits(Tail(s), n.val, max)

\* <u8 as FromStr>::from_str and <u32 as FromStr>::from_str: an optional
\* leading "+", then one or more decimal digits, the value within the type
parse_unsigned(s, max) ==
    IF s = <<>> THEN Err("Empty")
    ELSE IF Len(s) = 1 /\ s[1] \in {"+", "-"} THEN Err("InvalidDigit")
    ELSE parse_digits(IF s[1] = "+" THEN Tail(s) ELSE s, <<0, 0>>, max)

(***************************************************************************)
(* The inputs.                                                             *)
(***************************************************************************)
RECURSIVE join(_, _)
join(fields, sep) ==
    IF fields = <<>> THEN <<>>
    ELSE IF Len(fields) = 1 THEN fields[1]
    ELSE fields[1] \o <<sep>> \o join(Tail(fields), sep)

StringsUpTo(alphabet, n) == UNION {[1..k -> alphabet] : k \in 0..n}

\* the initial position of tests::test_new_from_fen
StartBoard == Chars("rnbqkbnr/pppppppp/8/8/8/8/PPPPPPPP/RNBQKBNR")

EmptyRank == Chars("8")

RankPatterns ==
    {Chars(r) : r \in {"rnbqkbnr", "PPPPPPPP", "4k3", "R3K2R", "1p1P1q1Q",
                        "3pP3", "7N", "b7", "2B2n2"}}

\* the boards of eight full ranks of which at most one is not empty
OneRankBoards ==
    {join([k \in 1..8 |-> IF k = r THEN p ELSE EmptyRank], "/") :
        r \in 1..8, p \in RankPatterns}

\* board fields that are no 8x8 layout, longer than MaxFieldLen
OddBoards ==
    {Chars(b) : b \in {"8/8/8/8/8/8/8/8/p", "8/8/8/8/8/8/8/8/8", "ppppppppp/8/8/8/8/8/8/8",
                        "9/8/8/8/8/8/8/8", "44p/8/8/8/8/8/8/8", "8/8/8/8/8/8/8",
                        "k7/8/8/8/8/8/8/7x", "0p0P6/8/8/8/8/8/8/8"}}

ShortBoards == StringsUpTo({"p", "Q", "/", "8", "1", "z"}, MaxFieldLen)

BoardFields == {StartBoard} \cup OneRankBoards \cup OddBoards \cup ShortBoards

SideFields == StringsUpTo({"w", "b", "W", "-"}, MaxFieldLen)

CastlingFields == {Chars(c) : c \in {"-", "KQkq", "Kq", "Qk", "k", "x", ""}}

SquareFields ==
    StringsUpTo({"a", "e", "h", "i", "A", "0", "1", "3", "8", "9", "-"}, MaxFieldLen)
        \cup {Chars("e33"), Chars("h8x")}

CounterFields ==
    StringsUpTo({"0", "1", "9", "+", "-", "x"}, MaxFieldLen)
        \cup {Chars(c) : c \in {"50", "255", "256", "0255", "65535", "65536", "4294967295",
                                 "4294967296", "00000000001", "99999999999"}}

BaseFields ==
    <<Chars("4k3/8/8/8/8/8/8/4K3"), Chars("w"), Chars("KQkq"), Chars("-"), Chars("0"),
      Chars("1"), Chars("x")>>

\* the base encoding with its k-th field replaced by f
Vary(k, f) == join([j \in 1..6 |-> IF j = k THEN f ELSE BaseFields[j]], " ")

Encodings ==
    {Vary(1, f) : f \in BoardFields}
        \cup {Vary(2, f) : f \in SideFields}
        \cup {Vary(3, f) : f \in CastlingFields}
        \cup {Vary(4, f) : f \in SquareFields}
        \cup {Vary(5, f) : f \in CounterFields}
        \cup {Vary(6, f) : f \in CounterFields}
        \cup {join(SubSeq(BaseFields, 1, k), " ") : k \in 0..7}
        \cup {join(<<b, s>>, " ") : b \in {BaseFields[1], Chars("8")}, s \in {Chars("b"), Chars("w")}}
        \cup ShortBoards

\* the pieces of the Boards written as struct literals
LiteralPieces ==
    {Piece(0, 0, "Rook", "Black"), Piece(0, 0, "King", "White"),
     Piece(7, 7, "Queen", "White"), Piece(8, 3, "Pawn", "White"),
     Piece(3, 8, "Knight", "Black"), Piece(3, 4, "Bishop", "Black")}

LiteralBoards ==
    {[pieces |-> ps, current_move |-> "White",
      can_white_king_castle |-> TRUE, can_white_queen_castle |-> TRUE,
      can_black_king_castle |-> TRUE, can_black_queen_castle |-> TRUE,
      en_passant_square |-> None, halfmove_clock |-> 0, fullmove_num |-> <<0, 1>>] :
        ps \in UNION {[1..k -> LiteralPieces] : k \in 0..MaxLiteralPieces}}

(***************************************************************************)
(* The program state.                                                      *)
(***************************************************************************)
VARIABLES
    pc,         \* where the program is
    fen,        \* new_from_fen's argument
    fen_vec,    \* its fields
    i,          \* the place of the scan in fen_vec[0], from 1
    x, y,       \* the file and rank of the scan
    pieces,     \* the pieces pushed so far
    lit,        \* the fields of the Board literal evaluated so far
    ret,        \* what new_from_fen returned
    board,      \* the Board that render is called on
    rx, ry,     \* the square render is at
    out,        \* the characters written to standard output
    calls       \* the calls of the two letter mappings made so far

vars == <<pc, fen, fen_vec, i, x, y, pieces, lit, ret, board, rx, ry, out, calls>>

parse_vars == <<fen, fen_vec, i, x, y, pieces, lit, ret>>

render_vars == <<rx, ry, out>>

\* the side of the board, the range of render's two loops
BoardSize == 8

\* most calls of the letter mappings composed one on the other's result
MaxCalls == 2

Init ==
    /\ pc = "main"
    /\ fen = <<>>
    /\ fen_vec = <<>>
    /\ i = 0
    /\ x = 0
    /\ y = 0
    /\ pieces = <<>>
    /\ lit = <<>>
    /\ ret = NoResult
    /\ board = None
    /\ rx = 0
    /\ ry = 0
    /\ out = <<>>
    /\ calls = <<>>

(***************************************************************************)
(* Board::new_from_fen.                                                    *)
(***************************************************************************)
\* the function returns r (or panics, r being Panic)
Return(r) ==
    /\ ret' = r
    /\ pc' = "returned"

NewFromFen ==
    /\ pc = "main"
    /\ \E f \in Encodings :
        /\ fen' = f
        /\ fen_vec' = split(f, " ")
    /\ pieces' = <<>>
    /\ x' = 0
    /\ y' = 0
    /\ i' = 1
    /\ pc' = "scan"
    /\ UNCHANGED <<lit, ret, board, render_vars, calls>>

\* the character the scan is at
ScanChar == fen_vec[1][i]

Scanning == pc = "scan" /\ i <= Len(fen_vec[1])

ScanDigit ==
    /\ Scanning
    /\ is_digit(ScanChar)
    /\ x' = x + to_digit(ScanChar).val
    /\ i' = i + 1
    /\ UNCHANGED <<pc, fen, fen_vec, y, pieces, lit, ret, board, render_vars, calls>>

ScanSlash ==
    /\ Scanning
    /\ ~is_digit(ScanChar)
    /\ ScanChar = "/"
    /\ y' = y + 1
    /\ x' = 0
    /\ i' = i + 1
    /\ UNCHANGED <<pc, fen, fen_vec, pieces, lit, ret, board, render_vars, calls>>

piece_color_swapped(v) == IF is_ascii_lowercase(v) THEN "White" ELSE "Black"

piece_color(v) == IF is_ascii_lowercase(v) THEN "Black" ELSE "White"

ScanPiece ==
    /\ Scanning
    /\ ~is_digit(ScanChar)
    /\ ScanChar # "/"
    /\ LET p == char_to_piece_type(to_ascii_lowercase(ScanChar))
       IN  IF p.tag = "Err"
           THEN /\ Return(Err("Invalid fen"))
                /\ UNCHANGED <<x, i, pieces>>
           ELSE /\ pieces' = Append(pieces, Piece(x, y, p.val, piece_color(ScanChar)))
                /\ x' = x + 1
                /\ i' = i + 1
                /\ UNCHANGED <<pc, ret>>
    /\ UNCHANGED <<fen, fen_vec, y, lit, board, render_vars, calls>>

\* fen_vec[k] of the source, fields counted from 0: out of range it panics
HasField(k) == k < Len(fen_vec)

Field(k) == fen_vec[k + 1]

current_move_of(field) ==
    IF field = <<"w">> THEN Ok("White")
    ELSE IF field = <<"w">> THEN Ok("Black")
    ELSE Err("Invalid fen")

\* the scan is over; the Board literal takes the pieces and its current_move
CurrentMove ==
    /\ pc = "scan"
    /\ i > Len(fen_vec[1])
    /\ IF ~HasField(1) THEN Return(Panic) /\ UNCHANGED lit
       ELSE LET m == current_move_of(Field(1))
            IN  IF m.tag = "Err" THEN Return(m) /\ UNCHANGED lit
                ELSE /\ lit' = [pieces |-> pieces, current_move |-> m.val]
                     /\ pc' = "castling"
                     /\ UNCHANGED ret
    /\ UNCHANGED <<fen, fen_vec, i, x, y, pieces, board, render_vars, calls>>

Castling ==
    /\ pc = "castling"
    /\ IF ~HasField(2) THEN Return(Panic) /\ UNCHANGED lit
       ELSE /\ lit' = lit @@ [can_white_king_castle |-> contains(Field(2), "K"),
                              can_white_queen_castle |-> contains(Field(2), "Q"),
                              can_black_king_castle |-> contains(Field(2), "k"),
                              can_black_queen_castle |-> contains(Field(2), "q")]
            /\ pc' = "en_passant"
            /\ UNCHANGED ret
    /\ UNCHANGED <<fen, fen_vec, i, x, y, pieces, board, render_vars, calls>>

\* overflow_checks is the build's setting, which the source does not fix
EnPassant ==
    /\ pc = "en_passant"
    /\ IF ~HasField(3) THEN Return(Panic) /\ UNCHANGED lit
       ELSE IF Field(3) = <<"-">>
       THEN /\ lit' = lit @@ [en_passant_square |-> None]
            /\ pc' = "halfmove"
            /\ UNCHANGED ret
       ELSE \E overflow_checks \in BOOLEAN :
            LET s == square_from_string(Field(3), overflow_checks)
            IN  IF s.tag = "Err" THEN Return(Err("Invalid fen")) /\ UNCHANGED lit
                ELSE IF s.tag = "panic" THEN Return(Panic) /\ UNCHANGED lit
                ELSE /\ lit' = lit @@ [en_passant_square |-> Some(s.val)]
                     /\ pc' = "halfmove"
                     /\ UNCHANGED ret
    /\ UNCHANGED <<fen, fen_vec, i, x, y, pieces, board, render_vars, calls>>

\* Result::unwrap: the value of Ok, a panic on Err
unwrap(r) == IF r.tag = "Ok" THEN r ELSE Panic

Halfmove ==
    /\ pc = "halfmove"
    /\ IF ~HasField(4) THEN Return(Panic) /\ UNCHANGED lit
       ELSE LET n == unwrap(parse_unsigned(Field(4), U8Max))
            IN  IF n.tag = "panic" THEN Return(Panic) /\ UNCHANGED lit
                ELSE /\ lit' = lit @@ [halfmove_clock |-> n.val[2]]
                     /\ pc' = "fullmove"
                     /\ UNCHANGED ret
    /\ UNCHANGED <<fen, fen_vec, i, x, y, pieces, board, render_vars, calls>>

Fullmove ==
    /\ pc = "fullmove"
    /\ IF ~HasField(5) THEN Return(Panic) /\ UNCHANGED lit
       ELSE LET n == unwrap(parse_unsigned(Field(5), U32Max))
            IN  IF n.tag = "panic" THEN Return(Panic) /\ UNCHANGED lit
                ELSE /\ lit' = lit @@ [fullmove_num |-> n.val]
                     /\ Return(Ok(lit'))
    /\ UNCHANGED <<fen, fen_vec, i, x, y, pieces, board, render_vars, calls>>

(***************************************************************************)
(* The callers: a Board bound from new_from_fen's result as in             *)
(* tests::test_new_from_fen, or written as a struct literal.               *)
(***************************************************************************)
\* let board = Board::new_from_fen(..).expect("")
Expect ==
    /\ pc = "returned"
    /\ ret.tag = "Ok"
    /\ board' = ret.val
    /\ pc' = "bound"
    /\ UNCHANGED <<parse_vars, render_vars, calls>>

BoardLiteral ==
    /\ pc = "main"
    /\ board' \in LiteralBoards
    /\ pc' = "bound"
    /\ UNCHANGED <<parse_vars, render_vars, calls>>

(***************************************************************************)
(* Board::render.                                                          *)
(***************************************************************************)
RECURSIVE square_text_last(_, _, _)
\* the loop over the pieces without its break: every match is printed; kept
\* to one token a square, that is the last match
square_text_last(ps, sx, sy) ==
    IF ps = <<>> THEN <<"*", " ">>
    ELSE LET v == ps[Len(ps)]
         IN  IF v.x = sx /\ v.y = sy
             THEN LET c == piece_type_to_char(v.ptype)
                  IN  <<IF v.color = "White" THEN to_uppercase(c) ELSE c, " ">>
             ELSE square_text_last(SubSeq(ps, 1, Len(ps) - 1), sx, sy)

RECURSIVE square_text(_, _, _)
\* what the body of the loop over x prints for the square (sx, sy): the loop
\* over the pieces stops at the first one on the square
square_text(ps, sx, sy) ==
    IF ps = <<>> THEN <<"*", " ">>
    ELSE LET v == Head(ps)
         IN  IF v.x = sx /\ v.y = sy
             THEN LET c == piece_type_to_char(v.ptype)
                  IN  <<IF v.color = "White" THEN to_uppercase(c) ELSE c, " ">>
             ELSE square_text(Tail(ps), sx, sy)

Render ==
    /\ pc = "bound"
    /\ pc' = "render"
    /\ rx' = 0
    /\ ry' = 0
    /\ out' = <<>>
    /\ UNCHANGED <<parse_vars, board, calls>>

RenderSquare ==
    /\ pc = "render"
    /\ ry < BoardSize
    /\ rx < BoardSize
    /\ out' = out \o square_text(board.pieces, rx, ry)
    /\ rx' = rx + 1
    /\ UNCHANGED <<pc, parse_vars, board, ry, calls>>

\* println!() at the end of a rank
RenderNewline ==
    /\ pc = "render"
    /\ ry < BoardSize
    /\ rx = BoardSize
    /\ out' = Append(out, "\n")
    /\ ry' = ry + 1
    /\ rx' = 0
    /\ UNCHANGED <<pc, parse_vars, board, calls>>

RenderReturn ==
    /\ pc = "render"
    /\ ry = BoardSize
    /\ pc' = "rendered"
    /\ UNCHANGED <<parse_vars, board, render_vars, calls>>

(***************************************************************************)
(* The letter mappings called on their own, as tests::test_char_to_piece_type *)
(* does, and one on the other's result.                                    *)
(***************************************************************************)
Call(f, a, r) == [fn |-> f, arg |-> a, res |-> r]

LastCall == calls[Len(calls)]

CallCharToPieceType ==
    /\ pc \in {"main", "mappings"}
    /\ Len(calls) < MaxCalls
    /\ \E c \in AsciiChars :
        /\ IF calls = <<>> THEN TRUE
           ELSE LastCall.fn = "piece_type_to_char" /\ c = LastCall.res
        /\ calls' = Append(calls, Call("char_to_piece_type", c, char_to_piece_type(c)))
    /\ pc' = "mappings"
    /\ UNCHANGED <<parse_vars, board, render_vars>>

CallPieceTypeToChar ==
    /\ pc \in {"main", "mappings"}
    /\ Len(calls) < MaxCalls
    /\ \E k \in PieceType :
        /\ IF calls = <<>> THEN TRUE
           ELSE LastCall.fn = "char_to_piece_type" /\ LastCall.res = Ok(k)
        /\ calls' = Append(calls, Call("piece_type_to_char", k, piece_type_to_char(k)))
    /\ pc' = "mappings"
    /\ UNCHANGED <<parse_vars, board, render_vars>>

(***************************************************************************)
(* The specification.                                                      *)
(***************************************************************************)
Next ==
    \/ NewFromFen
    \/ ScanDigit
    \/ ScanSlash
    \/ ScanPiece
    \/ CurrentMove
    \/ Castling
    \/ EnPassant
    \/ Halfmove
    \/ Fullmove
    \/ Expect
    \/ BoardLiteral
    \/ Render
    \/ RenderSquare
    \/ RenderNewline
    \/ RenderReturn
    \/ CallCharToPieceType
    \/ CallPieceTypeToChar

Spec == Init /\ [][Next]_vars

(***************************************************************************)
(* What the properties speak of: the fields of an encoding, and the        *)
(* chess-notation readings of a board field, a square and a counter,       *)
(* stated without the decoder's definitions.                               *)
(***************************************************************************)
Count(s, sep) == Cardinality({k \in 1..Len(s) : s[k] = sep})

\* the place of the n-th separator of s; 0 for n = 0, past the end for the
\* one after the last
SepAt(s, sep, n) ==
    IF n = 0 THEN 0
    ELSE IF n > Count(s, sep) THEN Len(s) + 1
    ELSE CHOOSE k \in 1..Len(s) :
            s[k] = sep /\ Cardinality({j \in 1..k : s[j] = sep}) = n

\* the n-th of the parts of s between separators, from 1
Part(s, sep, n) == SubSeq(s, SepAt(s, sep, n - 1) + 1, SepAt(s, sep, n) - 1)

FieldCount(s) == Count(s, " ") + 1

InputField(n) == Part(fen, " ", n)

LetterKind ==
    [p |-> "Pawn", r |-> "Rook", n |-> "Knight", b |-> "Bishop", q |-> "Queen", k |-> "King"]

UpperKind ==
    [P |-> "Pawn", R |-> "Rook", N |-> "Knight", B |-> "Bishop", Q |-> "Queen", K |-> "King"]

KindLetter ==
    [Pawn |-> "p", Rook |-> "r", Knight |-> "n", Bishop |-> "b", Queen |-> "q", King |-> "k"]

KindUpper ==
    [Pawn |-> "P", Rook |-> "R", Knight |-> "N", Bishop |-> "B", Queen |-> "Q", King |-> "K"]

DigitChars == <<"0", "1", "2", "3", "4", "5", "6", "7", "8", "9">>

IsDigitChar(c) == \E k \in 1..Len(DigitChars) : DigitChars[k] = c

DigitValue(c) == (CHOOSE k \in 1..Len(DigitChars) : DigitChars[k] = c) - 1

FileLetters == <<"a", "b", "c", "d", "e", "f", "g", "h">>

IsPieceLetter(c) == c \in DOMAIN LetterKind \/ c \in DOMAIN UpperKind

\* the squares a character of a board field stands for
SquaresOf(c) == IF IsDigitChar(c) THEN DigitValue(c) ELSE 1

RECURSIVE Squares(_)
Squares(s) == IF s = <<>> THEN 0 ELSE SquaresOf(Head(s)) + Squares(Tail(s))

RankCount(b) == Count(b, "/") + 1

\* eight ranks of exactly eight files, of piece letters and digits 1 to 8
ValidBoard(b) ==
    /\ RankCount(b) = 8
    /\ \A k \in 1..Len(b) :
        b[k] = "/" \/ IsPieceLetter(b[k]) \/ (IsDigitChar(b[k]) /\ DigitValue(b[k]) \in 1..8)
    /\ \A r \in 1..8 : Squares(Part(b, "/", r)) = 8

\* fewer or more than eight ranks, or a rank that covers more than eight files
OverflowingBoard(b) ==
    \/ RankCount(b) # 8
    \/ \E r \in 1..RankCount(b) : Squares(Part(b, "/", r)) > 8

\* the pieces a board field describes, in the order of the field
PiecePlaces(b) == {k \in 1..Len(b) : IsPieceLetter(b[k])}

PieceAt(b, k) ==
    LET rank == Cardinality({j \in 1..k : b[j] = "/"})
        file == Squares(SubSeq(b, SepAt(b, "/", rank) + 1, k - 1))
    IN  IF b[k] \in DOMAIN UpperKind
        THEN Piece(file, rank, UpperKind[b[k]], "White")
        ELSE Piece(file, rank, LetterKind[b[k]], "Black")

DescribedPieces(b) ==
    [n \in 1..Cardinality(PiecePlaces(b)) |->
        PieceAt(b, CHOOSE k \in PiecePlaces(b) :
                       Cardinality({j \in PiecePlaces(b) : j < k}) = n - 1)]

\* a file letter a to h and a rank digit 1 to 8
IsSquareText(s) ==
    /\ Len(s) = 2
    /\ \E k \in 1..Len(FileLetters) : FileLetters[k] = s[1]
    /\ IsDigitChar(s[2])
    /\ DigitValue(s[2]) \in 1..8

SquareOf(s) ==
    <<(CHOOSE k \in 1..Len(FileLetters) : FileLetters[k] = s[1]) - 1, DigitValue(s[2]) - 1>>

RECURSIVE StripZeros(_)
StripZeros(s) == IF Len(s) > 1 /\ Head(s) = "0" THEN StripZeros(Tail(s)) ELSE s

\* decimal numerals without leading zeros: a is at most b
NumeralLeq(a, b) ==
    \/ Len(a) < Len(b)
    \/ a = b
    \/ /\ Len(a) = Len(b)
       /\ \E k \in 1..Len(a) :
            /\ \A j \in 1..(k - 1) : a[j] = b[j]
            /\ DigitValue(a[k]) < DigitValue(b[k])

U8MaxText == <<"2", "5", "5">>

U32MaxText == <<"4", "2", "9", "4", "9", "6", "7", "2", "9", "5">>

\* a non-negative integer, with an optional plus sign, of at most maxText
IsCounterText(s, maxText) ==
    LET d == IF s # <<>> /\ Head(s) = "+" THEN Tail(s) ELSE s
    IN  /\ d # <<>>
        /\ \A k \in 1..Len(d) : IsDigitChar(d[k])
        /\ NumeralLeq(StripZeros(d), maxText)

\* new_from_fen has returned or panicked
Returned == pc = "returned"

(***************************************************************************)
(* The properties.                                                         *)
(***************************************************************************)
\* a six-field encoding whose fields other than the side to move are valid
OtherFiveValid ==
    /\ FieldCount(fen) = 6
    /\ ValidBoard(InputField(1))
    /\ InputField(4) = <<"-">> \/ IsSquareText(InputField(4))
    /\ IsCounterText(InputField(5), U8MaxText)
    /\ IsCounterText(InputField(6), U32MaxText)

\* C1: when the other five fields are valid, a side-to-move field "w" gives a
\* Position with White to move, "b" one with Black to move, and any other
\* value an error.
C1_SideToMove ==
    Returned /\ OtherFiveValid =>
        IF InputField(2) = <<"w">>
        THEN ret.tag = "Ok" /\ ret.val.current_move = "White"
        ELSE IF InputField(2) = <<"b">>
        THEN ret.tag = "Ok" /\ ret.val.current_move = "Black"
        ELSE ret.tag = "Err"

\* C2: an encoding of fewer than six space-separated fields makes
\* new_from_fen return an error; it never panics on it.
C2_FewerThanSixFields ==
    Returned /\ FieldCount(fen) < 6 => ret.tag = "Err"

\* C3: a six-field encoding whose halfmove clock or fullmove number is no
\* non-negative integer within its counter's range makes new_from_fen return
\* an error; it never panics on it.
C3_InvalidCounter ==
    /\ Returned
    /\ FieldCount(fen) = 6
    /\ \/ ~IsCounterText(InputField(5), U8MaxText)
       \/ ~IsCounterText(InputField(6), U32MaxText)
    => ret.tag = "Err"

\* C4: a board field of fewer or more than eight ranks, or with a rank that
\* covers more than eight files, is never accepted: new_from_fen returns no
\* Position for it.
C4_BoardOverflowRejected ==
    Returned /\ OverflowingBoard(InputField(1)) => ret.tag # "Ok"

\* C5: every piece of a Position that new_from_fen returns has its file x and
\* its rank y within 0..7.
C5_PiecesOnBoard ==
    Returned /\ ret.tag = "Ok" =>
        \A k \in 1..Len(ret.val.pieces) :
            ret.val.pieces[k].x \in 0..7 /\ ret.val.pieces[k].y \in 0..7

\* C6: in a six-field encoding with a valid board, "w" to move and valid
\* counters, the en-passant field "-" gives no target, a file letter a-h
\* followed by a rank digit 1-8 gives the target (letter index, digit - 1),
\* and every other value makes new_from_fen return an error.
C6_EnPassantField ==
    /\ Returned
    /\ FieldCount(fen) = 6
    /\ ValidBoard(InputField(1))
    /\ InputField(2) = <<"w">>
    /\ IsCounterText(InputField(5), U8MaxText)
    /\ IsCounterText(InputField(6), U32MaxText)
    => IF InputField(4) = <<"-">>
       THEN ret.tag = "Ok" /\ ret.val.en_passant_square = None
       ELSE IF IsSquareText(InputField(4))
       THEN ret.tag = "Ok" /\ ret.val.en_passant_square = Some(SquareOf(InputField(4)))
       ELSE ret.tag = "Err"

\* the pieces that tests::test_new_from_fen expects of the initial position
BackRank == <<"Rook", "Knight", "Bishop", "Queen", "King", "Bishop", "Knight", "Rook">>

StartPieces ==
    [k \in 1..8 |-> Piece(k - 1, 0, BackRank[k], "Black")]
        \o [k \in 1..8 |-> Piece(k - 1, 1, "Pawn", "Black")]
        \o [k \in 1..8 |-> Piece(k - 1, 6, "Pawn", "White")]
        \o [k \in 1..8 |-> Piece(k - 1, 7, BackRank[k], "White")]

C8_CharToPieceType ==
    \A n \in 1..Len(calls) :
        calls[n].fn = "char_to_piece_type" =>
            calls[n].res =
                IF calls[n].arg \in {"p", "r", "n", "b", "q", "k"}
                THEN Ok(LetterKind[calls[n].arg])
                ELSE Err("Invalid piece char")

C8_Witness ==
    /\ Len(calls) = 1
    /\ calls[1].fn = "char_to_piece_type"
    /\ calls[1].arg = "N"
    /\ calls[1].res.tag = "Err"

\* C9: the two letter mappings are inverse: piece_type_to_char on the kind
\* that char_to_piece_type gives for one of the six letters returns that
\* letter, char_to_piece_type on the letter that piece_type_to_char gives for
\* a kind returns Ok of that kind, and piece_type_to_char always returns a
\* lowercase letter.
C9_MappingsInverse ==
    /\ \A n \in 1..Len(calls) :
        calls[n].fn = "piece_type_to_char" =>
            \E k \in 1..Len(PrintableHigh) : k <= 26 /\ calls[n].res = PrintableHigh[k]
    /\ \A n \in 1..(Len(calls) - 1) :
        /\ calls[n].fn = "char_to_piece_type" /\ calls[n + 1].fn = "piece_type_to_char"
            => calls[n + 1].res = calls[n].arg
        /\ calls[n].fn = "piece_type_to_char" /\ calls[n + 1].fn = "char_to_piece_type"
            => calls[n + 1].res = Ok(calls[n].arg)

C9_Witness ==
    /\ Len(calls) = 2
    /\ calls[1].fn = "char_to_piece_type"
    /\ calls[1].arg = "n"
    /\ calls[2].fn = "piece_type_to_char"
    /\ calls[2].res = "n"

\* the token of the square (sx, sy): the letter of the first piece on it in
\* sequence order, uppercase for White, and "*" when no piece is on it
Token(b, sx, sy) ==
    LET on == {k \in 1..Len(b.pieces) : b.pieces[k].x = sx /\ b.pieces[k].y = sy}
    IN  IF on = {} THEN "*"
        ELSE LET first == CHOOSE k \in on : \A j \in on : k <= j
             IN  IF b.pieces[first].color = "White"
                 THEN KindUpper[b.pieces[first].ptype]
                 ELSE KindLetter[b.pieces[first].ptype]

\* eight lines, line sy of the eight tokens of rank sy, file 0 first, each
\* followed by a space, and a newline at the end of the line
RenderedText(b) ==
    [n \in 1..(8 * 17) |->
        LET sy == (n - 1) \div 17
            col == (n - 1) % 17
        IN  IF col = 16 THEN "\n"
            ELSE IF col % 2 = 1 THEN " "
            ELSE Token(b, col \div 2, sy)]

\* C10: render, on every Position (several pieces on a square, or pieces off
\* the board, included), writes eight lines of eight tokens, the token of
\* line y and column x being the letter of the first piece in sequence order
\* on (x, y), uppercase if White and lowercase if Black, and "*" if there is
\* none; and it leaves the Position as it was.
C10_Render ==
    /\ [](pc = "rendered" => out = RenderedText(board))
    /\ [][(pc \in {"bound", "render"}) => (board' = board)]_vars

C10_Witness ==
    /\ pc = "rendered"
    /\ Len(board.pieces) = 2
    /\ board.pieces[1].x = board.pieces[2].x
    /\ board.pieces[1].y = board.pieces[2].y
    /\ board.pieces[1].ptype # board.pieces[2].ptype
    /\ Len(out) = 8 * 17

=============================================================================
